---- MODULE Spec2Model ----
(***************************************************************************)
(* Model of the disambiguation-aware geocoding resolver of gusmmm/tools    *)
(* (src/modules/geocoding.py, class GeocodingService) and of the way its   *)
(* callers invoke it.                                                      *)
(*                                                                         *)
(* One call is followed from argument binding to its result.  The          *)
(* geocoding provider is the environment: what it would answer to the      *)
(* search request is fixed in the initial state.  Every input() read of a  *)
(* prompt is one step, taken with an entry typed by the user.              *)
(*                                                                         *)
(* A prompt is one call of _prompt_country_selection or of                 *)
(* _select_specific_location (its table is printed once); an invalid entry *)
(* makes its loop read again and is kept as the last entry read.           *)
(***************************************************************************)
EXTENDS Integers, Sequences, FiniteSets, TLC

(***************************************************************************)
(* Bounds of the model.                                                    *)
(***************************************************************************)
\* Largest number of candidates in a provider response.
MaxResults == 3

(***************************************************************************)
(* Provider data.                                                          *)
(***************************************************************************)
\* Country names that occur in provider responses.
Countries == {"France", "United States"}
\* A country a caller may name that no candidate carries.
OtherCountry == "Atlantis"

\* The "address" part of a result: absent, present without a "country"
\* key, or present with a country.
NoAddress == "<no address>"
NoCountryKey == "<address without country>"
AddressValues == Countries \cup {NoAddress, NoCountryKey}

\* The forms a "lat"/"lon" field of a result can take: the text of a
\* number, text that is no number, the key missing, JSON null.
CoordForms == {"number", "text", "missing", "null"}

\* The number written in the "lat" and "lon" field of the result of rank i.
LatOf(i) == i
LonOf(i) == 100 + i

\* The (lat form, lon form) pairs of a result.  float(lat) is evaluated
\* first, so lon is only ever read when lat is the text of a number: the
\* pairs with a malformed lat are represented by the one with a numeric lon.
CoordPairs ==
    {p \in CoordForms \X CoordForms : p[1] = "number" \/ p[2] = "number"}

\* The text of the "display_name" field of the result of rank i.
DisplayNameOf(i) == 200 + i

\* The result of rank i of a response; `named` tells whether it has a
\* "display_name".
Candidate(i, addr, p, named) ==
    [address |-> addr,
     lat |-> [form |-> p[1], val |-> LatOf(i)],
     lon |-> [form |-> p[2], val |-> LonOf(i)],
     display_name |-> [present |-> named, val |-> DisplayNameOf(i)]]

Wellformed(c) == c.lat.form = "number" /\ c.lon.form = "number"

GoodPair == <<"number", "number">>

\* The code reads "lat" and "lon" of the selected result only, and the
\* results are read independently of each other, so a response carries at
\* most one irregular result, at any rank: one with malformed coordinates,
\* or one without "display_name".
Faults(n) ==
    {[rank |-> 0, pair |-> GoodPair, named |-> TRUE]}
    \cup {[rank |-> r, pair |-> p, named |-> TRUE] :
             r \in 1..n, p \in CoordPairs \ {GoodPair}}
    \cup {[rank |-> r, pair |-> GoodPair, named |-> FALSE] : r \in 1..n}

\* Every list of at most MaxResults results.
Bodies ==
    UNION {
        {[i \in 1..n |->
            Candidate(i, a[i], IF f.rank = i THEN f.pair ELSE GoodPair,
                      f.rank = i => f.named)]
         : a \in [1..n -> AddressValues], f \in Faults(n)}
        : n \in 0..MaxResults}

\* What the provider does with the search request: a transport failure, a
\* body that is no JSON, or a JSON body of some shape.
FailureKinds ==
    {"timeout", "connect_timeout", "connection", "http", "other_request",
     "unparsable"}
OddBodyKinds == {"null", "object", "scalars"}

ProviderBehaviours ==
    {[kind |-> k, body |-> <<>>] : k \in FailureKinds \cup OddBodyKinds}
    \cup {[kind |-> "list", body |-> b] : b \in Bodies}

(***************************************************************************)
(* Caller input.                                                           *)
(***************************************************************************)
\* Location texts: empty, blank, and with a name in them.
Texts ==
    {<<>>, <<" ">>, <<" ", " ">>, <<"a">>, <<" ", "a">>, <<"a", " ">>}

\* The location argument: a string, or a value of another type that is
\* falsy (None, 0) or truthy (5, ["Porto"]).
Locations ==
    {[isStr |-> TRUE, text |-> t, truthy |-> (t # <<>>)] : t \in Texts}
    \cup {[isStr |-> FALSE, text |-> <<>>, truthy |-> b] : b \in BOOLEAN}

\* The second positional argument of a call: not passed, None, or a name.
NoArg == "<not passed>"
PyNone == "<None>"
CountryArgs == {NoArg, PyNone, OtherCountry} \cup Countries

\* What is typed at a prompt: text that is no integer, or an integer.
MinEntry == 0 - 1
MaxEntry == MaxResults + 1
Entries ==
    {[kind |-> "text", val |-> 0]}
    \cup {[kind |-> "int", val |-> n] : n \in MinEntry..MaxEntry}
\* Nothing typed yet.
NoEntry == [kind |-> "none", val |-> 0]

VARIABLES
    pc,              \* where the call stands
    provider,        \* what the provider answers to the search request
    op,              \* the method called
    location,        \* its location argument
    countryArg,      \* its second positional argument
    results,         \* the parsed response
    countries,       \* the insertion-ordered country -> results mapping
    locations,       \* the list given to the candidate-selection prompt
    selected,        \* rank of selected_result, 0 while there is none
    coordinates,     \* the coordinates the resolution produced
    result,          \* what the call returned or raised
    message,         \* the failure message printed on the console
    countryPrompts,  \* calls of _prompt_country_selection
    candPrompts,     \* calls of _select_specific_location
    countryEntry,    \* the last entry read at the country prompt
    candEntry,       \* the last entry read at the candidate prompt
    searchRequests,  \* requests sent to the search endpoint
    reverseRequests, \* requests sent to the reverse endpoint
    earlier,         \* an earlier geocode call of the process, if any
    wpc,             \* where the get_weather call stands
    latitude,        \* its latitude argument
    longitude,       \* its longitude argument
    include_forecast,\* its include_forecast argument
    wresult,         \* what get_weather returned or raised
    wmessage,        \* the failure message get_weather printed
    weatherRequests, \* requests sent to the weather provider
    wop,             \* the JSON method of WeatherDataService called
    current_data,    \* what get_weather_json returned
    forecast_data,   \* what get_forecast_json returned
    jresult,         \* what the JSON method returned or raised
    environ,         \* os.environ
    keyCall,         \* the KeyManager method called and its key_name
    keyResult,       \* what it returned or raised
    apc,             \* where the process_query call stands
    return_type,     \* WeatherAgent.return_type
    print_to_terminal, \* WeatherAgent.print_to_terminal
    tool,            \* which get_weather_data tool is running, if any
    toolResult,      \* what the tool returned or raised
    queryResult      \* what process_query returned or raised

\* The state of a WeatherDataService.get_weather call.
weatherVars ==
    <<wpc, latitude, longitude, include_forecast, wresult, wmessage,
      weatherRequests>>

\* The state of a JSON method of WeatherDataService.
jsonVars == <<wop, current_data, forecast_data, jresult>>

\* The environment and the state of a KeyManager call.
keyVars == <<environ, keyCall, keyResult>>

\* The state of a WeatherAgent and of the weather tool.
agentVars ==
    <<apc, return_type, print_to_terminal, tool, toolResult, queryResult>>

vars ==
    <<pc, provider, op, location, countryArg, results, countries, locations,
      selected, coordinates, result, message, countryPrompts, candPrompts,
      countryEntry, candEntry, searchRequests,
      reverseRequests, earlier, weatherVars, jsonVars, keyVars, agentVars>>

(***************************************************************************)
(* Pure helpers.                                                           *)
(***************************************************************************)
\* str.strip(): the text without its leading and trailing blanks.
RECURSIVE LStrip(_)
LStrip(t) == IF t # <<>> /\ Head(t) = " " THEN LStrip(Tail(t)) ELSE t

RECURSIVE RStrip(_)
RStrip(t) ==
    IF t # <<>> /\ t[Len(t)] = " " THEN RStrip(SubSeq(t, 1, Len(t) - 1)) ELSE t

Strip(t) == RStrip(LStrip(t))

InvalidLocation_NoStrip(loc) ==
    \/ ~loc.truthy
    \/ ~loc.isStr
    \/ loc.text = <<>>

\* The guard of geocode and get_location_details:
\*   not location or not isinstance(location, str) or location.strip() == ""
InvalidLocation(loc) ==
    \/ ~loc.truthy
    \/ ~loc.isStr
    \/ Strip(loc.text) = <<>>

\* "address" in result and "country" in result["address"]
HasCountry_AddressOnly(r) == r.address # NoAddress

HasCountry(r) == r.address # NoAddress /\ r.address # NoCountryKey

\* One turn of the grouping loop: result r of rank i joins the list of its
\* country, a new country being added at the end of the mapping.
GroupStep_Overwrites(cs, i, r) ==
    IF ~HasCountry(r) THEN cs
    ELSE IF \E k \in 1..Len(cs) : cs[k].country = r.address
         THEN [k \in 1..Len(cs) |->
                  IF cs[k].country = r.address
                  THEN [cs[k] EXCEPT !.members = <<i>>]
                  ELSE cs[k]]
         ELSE Append(cs, [country |-> r.address, members |-> <<i>>])

GroupStep(cs, i, r) ==
    IF ~HasCountry(r) THEN cs
    ELSE IF \E k \in 1..Len(cs) : cs[k].country = r.address
         THEN [k \in 1..Len(cs) |->
                  IF cs[k].country = r.address
                  THEN [cs[k] EXCEPT !.members = Append(@, i)]
                  ELSE cs[k]]
         ELSE Append(cs, [country |-> r.address, members |-> <<i>>])

\* Line 96, `countries = {}`: every resolution groups from an empty
\* mapping.
InitialCountries_Stale == earlier.countries

InitialCountries == <<>>

RECURSIVE GroupUpTo(_, _)
GroupUpTo(rs, n) ==
    IF n = 0
    THEN InitialCountries
    ELSE GroupStep(GroupUpTo(rs, n - 1), n, rs[n])

\* The mapping `countries` built from the whole response.
GroupByCountry(rs) == GroupUpTo(rs, Len(rs))

\* float(selected_result[key]): the number, or the exception raised.
Float(field) ==
    CASE field.form = "number"  -> [ok |-> TRUE, val |-> field.val, exc |-> ""]
      [] field.form = "text"    -> [ok |-> FALSE, val |-> 0, exc |-> "ValueError"]
      [] field.form = "missing" -> [ok |-> FALSE, val |-> 0, exc |-> "KeyError"]
      [] field.form = "null"    -> [ok |-> FALSE, val |-> 0, exc |-> "TypeError"]

\* The classes an exception is an instance of.
ClassesOf(exc) ==
    CASE exc = "HTTPError" -> {"HTTPError", "RequestException"}
      [] exc = "ConnectionError" -> {"ConnectionError", "RequestException"}
      [] exc = "ConnectTimeout" ->
            {"ConnectTimeout", "ConnectionError", "Timeout", "RequestException"}
      [] exc = "ReadTimeout" -> {"ReadTimeout", "Timeout", "RequestException"}
      [] exc = "TooManyRedirects" -> {"TooManyRedirects", "RequestException"}
      [] exc = "RequestsJSONDecodeError" ->
            {"RequestsJSONDecodeError", "RequestException", "ValueError"}
      [] exc = "JSONDecodeError" -> {"JSONDecodeError", "ValueError"}
      [] OTHER -> {exc}

\* What the provider's behaviour raises inside requests.get,
\* raise_for_status or response.json.  The class raised for a body that is
\* no JSON depends on the installed version of requests.
RaisedBy(kind) ==
    CASE kind = "timeout" -> {"ReadTimeout"}
      [] kind = "connect_timeout" -> {"ConnectTimeout"}
      [] kind = "connection" -> {"ConnectionError"}
      [] kind = "http" -> {"HTTPError"}
      [] kind = "other_request" -> {"TooManyRedirects"}
      [] kind = "unparsable" -> {"RequestsJSONDecodeError", "JSONDecodeError"}

\* Outcomes of _get_coordinates_with_disambiguation.
ReturnCoords(la, lo) ==
    [kind |-> "coords", lat |-> la, lon |-> lo, exc |-> "", msg |-> ""]
ReturnNone(m) ==
    [kind |-> "None", lat |-> 0, lon |-> 0, exc |-> "", msg |-> m]
Raise(e) ==
    [kind |-> "raised", lat |-> 0, lon |-> 0, exc |-> e, msg |-> ""]

\* The except clauses of _get_coordinates_with_disambiguation, in order; an
\* exception that matches none of them leaves the method.
HandleException(exc) ==
    LET cls == ClassesOf(exc) IN
    IF "HTTPError" \in cls THEN ReturnNone("HTTP Error during geocoding")
    ELSE IF "ConnectionError" \in cls THEN ReturnNone("Connection Error")
    ELSE IF "Timeout" \in cls THEN ReturnNone("Timeout Error")
    ELSE IF "RequestException" \in cls
         THEN ReturnNone("Request Error during geocoding")
    ELSE IF "ValueError" \in cls \/ "KeyError" \in cls
         THEN ReturnNone("Data Error")
    ELSE Raise(exc)

\* Lines 113-119: the coordinates of the selected result, lat first.
ExtractCoordinates_Mixed(rs, sel) ==
    LET la == Float(rs[sel].lat)
        lo == Float(rs[1].lon)
    IN  IF ~la.ok THEN HandleException(la.exc)
        ELSE IF ~lo.ok THEN HandleException(lo.exc)
        ELSE ReturnCoords(la.val, lo.val)

ExtractCoordinates(rs, sel) ==
    LET la == Float(rs[sel].lat)
        lo == Float(rs[sel].lon)
    IN  IF ~la.ok THEN HandleException(la.exc)
        ELSE IF ~lo.ok THEN HandleException(lo.exc)
        ELSE ReturnCoords(la.val, lo.val)

(***************************************************************************)
(* The call, step by step.                                                 *)
(***************************************************************************)
Methods == {"geocode", "get_location_details"}

Pending ==
    [kind |-> "pending", lat |-> 0, lon |-> 0, exc |-> "", success |-> FALSE,
     status |-> ""]
Raised(e) == [Pending EXCEPT !.kind = "raised", !.exc = e]
NoCoordinates == [set |-> FALSE, lat |-> 0, lon |-> 0]

\* No earlier call.
NoEarlier ==
    [made |-> FALSE,
     location |-> [isStr |-> FALSE, text |-> <<>>, truthy |-> FALSE],
     countries |-> <<>>,
     countryEntry |-> NoEntry, candEntry |-> NoEntry, result |-> Pending]

\* A GeocodingService before a call: the object holds its URL, console and
\* logger only, and every call starts from fresh locals.
CallIdle ==
    /\ pc = "idle"
    /\ op = ""
    /\ location = [isStr |-> FALSE, text |-> <<>>, truthy |-> FALSE]
    /\ countryArg = NoArg
    /\ results = <<>>
    /\ countries = <<>>
    /\ locations = <<>>
    /\ selected = 0
    /\ coordinates = NoCoordinates
    /\ result = Pending
    /\ message = ""
    /\ countryPrompts = 0
    /\ candPrompts = 0
    /\ countryEntry = NoEntry
    /\ candEntry = NoEntry
    /\ searchRequests = 0
    /\ reverseRequests = 0

\* What get_weather returned or raised.
WPending == [kind |-> "pending", exc |-> ""]

\* A WeatherDataService before a call.
WeatherIdle ==
    /\ wpc = "idle"
    /\ latitude = 0
    /\ longitude = 0
    /\ include_forecast = FALSE
    /\ wresult = WPending
    /\ wmessage = ""
    /\ weatherRequests = 0

\* What a JSON method of WeatherDataService returned: nothing yet.
NoData == [kind |-> "pending"]

\* No JSON method of a WeatherDataService has been called.
JsonIdle ==
    /\ wop = "none"
    /\ current_data = NoData
    /\ forecast_data = NoData
    /\ jresult = NoData

\* The names looked up in the environment and the values they can have;
\* the empty string is a value.
KeyNames == {"GEMINI_API_KEY", "TEST_KEY", "NON_EXISTENT_KEY"}
KeyValues == {"", "test_value", "secret"}
Absent == "<absent>"
Environments == [KeyNames -> KeyValues \cup {Absent}]

\* The message of the ValueError for a missing key; no message.
KeyNotFound(key_name) ==
    [text |-> "Key '<key_name>' not found in environment variables.",
     key_name |-> key_name]
NoKeyMessage == [text |-> "", key_name |-> ""]

\* No method of a KeyManager has been called.
KeyIdle ==
    /\ keyCall = [method |-> "none", key_name |-> ""]
    /\ keyResult =
          [kind |-> "pending", val |-> "", exc |-> "", msg |-> NoKeyMessage]

\* An environment without any of the names, and no KeyManager call.
KeysIdle ==
    /\ environ = [k \in KeyNames |-> Absent]
    /\ KeyIdle

\* What process_query or the weather tool returned: nothing yet.
NoShape == [kind |-> "pending"]

\* A WeatherAgent before a query, and no weather tool running.
AgentIdle ==
    /\ apc = "idle"
    /\ return_type = "text"
    /\ print_to_terminal = TRUE
    /\ tool = "none"
    /\ toolResult = NoShape
    /\ queryResult = NoShape

Init ==
    /\ provider \in ProviderBehaviours
    /\ CallIdle
    /\ earlier = NoEarlier
    /\ WeatherIdle
    /\ JsonIdle
    /\ KeysIdle
    /\ AgentIdle

\* The number of positional arguments geocode(self, location) and
\* get_location_details(self, location) accept besides self.
Accepts(method, c) == c = NoArg

\* A caller invokes method o with location loc and, when c is not NoArg,
\* with c as a second positional argument (geocoding.geocode(city, country)).
\* Python binds the arguments, then the method checks the location.
Bind(o, loc, c) ==
    /\ pc = "idle"
    /\ op' = o
    /\ location' = loc
    /\ countryArg' = c
    /\ IF ~Accepts(o, c)
       THEN /\ result' = Raised("TypeError")
            /\ pc' = "done"
       ELSE IF InvalidLocation(loc)
       THEN /\ result' = Raised("ValueError")
            /\ pc' = "done"
       ELSE /\ result' = result
            /\ pc' = "request"
    /\ UNCHANGED <<provider, results, countries, locations, selected,
                   coordinates, message, countryPrompts, candPrompts,
                   countryEntry, candEntry,
                   searchRequests, reverseRequests>>

\* A call made by a caller outside the weather tool.
Call(o, loc, c) ==
    /\ Bind(o, loc, c)
    /\ UNCHANGED <<earlier, weatherVars, jsonVars, keyVars, agentVars>>

\* _get_coordinates_with_disambiguation returns or raises `outcome`:
\* geocode hands it on; get_location_details goes on to the reverse lookup
\* when it is a pair of coordinates (lines 260-272).  Nothing is tried
\* again: a handled exception and an empty response return None at once.
Return_RetriesFailure(outcome) ==
    /\ message' = outcome.msg
    /\ coordinates' =
          IF outcome.kind = "coords"
          THEN [set |-> TRUE, lat |-> outcome.lat, lon |-> outcome.lon]
          ELSE coordinates
    /\ IF outcome.kind = "None" /\ pc = "request"
       THEN /\ result' = result
            /\ pc' = "request"
       ELSE IF outcome.kind = "raised"
       THEN /\ result' = Raised(outcome.exc)
            /\ pc' = "done"
       ELSE IF op = "geocode"
       THEN /\ result' = [Pending EXCEPT !.kind = outcome.kind,
                                         !.lat = outcome.lat,
                                         !.lon = outcome.lon]
            /\ pc' = "done"
       ELSE /\ result' = result
            /\ pc' = "reverse"

Return(outcome) ==
    /\ message' = outcome.msg
    /\ coordinates' =
          IF outcome.kind = "coords"
          THEN [set |-> TRUE, lat |-> outcome.lat, lon |-> outcome.lon]
          ELSE coordinates
    /\ IF outcome.kind = "raised"
       THEN /\ result' = Raised(outcome.exc)
            /\ pc' = "done"
       ELSE IF op = "geocode"
       THEN /\ result' = [Pending EXCEPT !.kind = outcome.kind,
                                         !.lat = outcome.lat,
                                         !.lon = outcome.lon]
            /\ pc' = "done"
       ELSE IF outcome.kind = "None"
       THEN /\ result' = [Pending EXCEPT !.kind = "details",
                                         !.status = "Location not found"]
            /\ pc' = "done"
       ELSE /\ result' = result
            /\ pc' = "reverse"

\* selected_result = rs[sel], then lines 113-119.
Select(rs, sel) ==
    /\ selected' = sel
    /\ Return(ExtractCoordinates(rs, sel))

\* Line 90, `if not results`: nothing found.
NotFoundOutcome_Unchecked == Raise("IndexError")

NotFoundOutcome == ReturnNone("Location not found")

\* Line 105, `len(countries) > 1`: the place name is ambiguous.
Ambiguous_AtLeastOne(cs) == Len(cs) >= 1

Ambiguous_MoreThanTwo(cs) == Len(cs) > 2

Ambiguous(cs) == Len(cs) > 1

\* Lines 79-111: the search request, the parsing of its response, the
\* grouping by country and the choice between prompting and results[0].
SearchRequest ==
    /\ pc = "request"
    /\ UNCHANGED <<earlier, weatherVars, jsonVars, keyVars, agentVars>>
    /\ searchRequests' = searchRequests + 1
    /\ UNCHANGED <<provider, op, location, countryArg, locations,
                   candPrompts, countryEntry,
                   candEntry, reverseRequests>>
    /\ CASE provider.kind \in FailureKinds ->
              /\ \E e \in RaisedBy(provider.kind) : Return(HandleException(e))
              /\ UNCHANGED <<results, countries, selected, countryPrompts>>
         [] provider.kind = "null" ->
              \* a falsy body: `if not results`
              /\ Return(NotFoundOutcome)
              /\ UNCHANGED <<results, countries, selected, countryPrompts>>
         [] provider.kind = "object" ->
              \* a JSON object such as {"error": ...}: the loop runs over
              \* its keys, none has a country, and results[0] is a KeyError
              /\ Return(HandleException("KeyError"))
              /\ UNCHANGED <<results, countries, selected, countryPrompts>>
         [] provider.kind = "scalars" ->
              \* a list of values that are no objects, such as [1]:
              \* `"address" in result` is a TypeError
              /\ Return(HandleException("TypeError"))
              /\ UNCHANGED <<results, countries, selected, countryPrompts>>
         [] provider.kind = "list" ->
              /\ results' = provider.body
              /\ IF provider.body = <<>>
                 THEN /\ Return(NotFoundOutcome)
                      /\ UNCHANGED <<countries, selected, countryPrompts>>
                 ELSE /\ countries' = GroupByCountry(provider.body)
                      /\ IF Ambiguous(countries')
                         THEN /\ countryPrompts' = countryPrompts + 1
                              /\ pc' = "country_prompt"
                              /\ UNCHANGED <<selected, coordinates, result,
                                             message>>
                         ELSE /\ Select(provider.body, 1)
                              /\ UNCHANGED countryPrompts

\* int(choice) of what was typed.
ParseInt_Rejects(entry) == [ok |-> FALSE, val |-> 0]

ParseInt(entry) ==
    IF entry.kind = "int"
    THEN [ok |-> TRUE, val |-> entry.val]
    ELSE [ok |-> FALSE, val |-> 0]

\* Line 185, `len(country_results) > 1`: the country has several results.
NeedsRefinement_Always(country_results) == Len(country_results) >= 1

NeedsRefinement(country_results) == Len(country_results) > 1

\* Line 178, `choice_num == 0`: "None of these".
IsCancel_Dropped(choice) == FALSE

IsCancel(choice) == choice.ok /\ choice.val = 0

\* Line 158, `country_list = list(countries.keys())`: the countries in the
\* order in which the mapping received them.
CountryList_Reversed(cs) == [k \in 1..Len(cs) |-> cs[Len(cs) + 1 - k].country]

CountryList(cs) == [k \in 1..Len(cs) |-> cs[k].country]

\* countries[country]: the results grouped under a country.
ResultsOf_First(cs, country) == cs[1].members

ResultsOf(cs, country) ==
    cs[CHOOSE k \in 1..Len(cs) : cs[k].country = country].members

\* Line 163: .get("display_name", f"{location}, {country}") of a result.
ExampleOf(r) ==
    IF r.display_name.present
    THEN [kind |-> "display_name", val |-> r.display_name.val]
    ELSE [kind |-> "location, country", val |-> 0]

\* Lines 161-164: the rows of the table of the country prompt; row 0,
\* "None of these", follows them (line 167).
CountryTable(cs, rs) ==
    [k \in 1..Len(cs) |->
        [number |-> k,
         country |-> CountryList(cs)[k],
         example |-> ExampleOf(rs[ResultsOf(cs, CountryList(cs)[k])[1]])]]

\* Lines 189-192: an entry that is no number or is out of range prints
\* "try again" and the `while True` loop reads the next entry.
\* The loop is inside _prompt_country_selection: the table is not shown
\* again and the function is not called again.
CountryRetry_GivesUp ==
    /\ Return(ReturnNone(""))
    /\ UNCHANGED <<locations, selected, countryPrompts, candPrompts>>

CountryRetry_PromptsAgain ==
    /\ countryPrompts' = countryPrompts + 1
    /\ UNCHANGED <<pc, locations, selected, coordinates, result, message,
                   candPrompts>>

CountryRetry ==
    UNCHANGED <<pc, locations, selected, coordinates, result, message,
                countryPrompts, candPrompts>>

\* Lines 173-192: one read of the country prompt's loop.
CountryRead(entry) ==
    /\ pc = "country_prompt"
    /\ UNCHANGED <<earlier, weatherVars, jsonVars, keyVars, agentVars>>
    /\ countryEntry' = entry
    /\ UNCHANGED <<provider, op, location, countryArg, results, countries,
                   candEntry, searchRequests, reverseRequests>>
    /\ LET choice == ParseInt(entry) IN
       IF IsCancel(choice)
       THEN \* "None of these": None, and `if not selected_result`
            /\ Return(ReturnNone(""))
            /\ UNCHANGED <<locations, selected, countryPrompts, candPrompts>>
       ELSE IF choice.ok /\ 1 <= choice.val /\ choice.val <= Len(countries)
       THEN LET selected_country == CountryList(countries)[choice.val]
                country_results == ResultsOf(countries, selected_country)
            IN
            IF NeedsRefinement(country_results)
            THEN /\ locations' = country_results
                 /\ candPrompts' = candPrompts + 1
                 /\ pc' = "candidate_prompt"
                 /\ UNCHANGED <<selected, coordinates, result, message,
                                countryPrompts>>
            ELSE /\ Select(results, country_results[1])
                 /\ UNCHANGED <<locations, countryPrompts, candPrompts>>
       ELSE CountryRetry

\* Lines 229-232: the same in the candidate prompt's loop, which has no
\* entry that gives up: 0 is out of range like any other.
CandidateRetry_CancelsOnZero ==
    IF candEntry' = [kind |-> "int", val |-> 0]
    THEN Return(ReturnNone("")) /\ UNCHANGED selected
    ELSE UNCHANGED <<pc, selected, coordinates, result, message>>

CandidateRetry == UNCHANGED <<pc, selected, coordinates, result, message>>

\* Lines 222-232: one read of the candidate prompt's loop.
CandidateRead(entry) ==
    /\ pc = "candidate_prompt"
    /\ UNCHANGED <<earlier, weatherVars, jsonVars, keyVars, agentVars>>
    /\ candEntry' = entry
    /\ UNCHANGED <<provider, op, location, countryArg, results, countries,
                   locations, countryPrompts, candPrompts, countryEntry, searchRequests, reverseRequests>>
    /\ LET choice == ParseInt(entry) IN
       IF choice.ok /\ 1 <= choice.val /\ choice.val <= Len(locations)
       THEN Select(results, locations[choice.val])
       ELSE CandidateRetry

\* Lines 287-330 of get_location_details: the reverse lookup with the
\* coordinates found; whatever it raises is caught and reported.
ReverseRequest(ok) ==
    /\ pc = "reverse"
    /\ UNCHANGED <<earlier, weatherVars, jsonVars, keyVars, agentVars>>
    /\ reverseRequests' = reverseRequests + 1
    /\ result' =
          IF ok
          THEN [Pending EXCEPT !.kind = "details", !.success = TRUE,
                               !.lat = coordinates.lat,
                               !.lon = coordinates.lon,
                               !.status = "Location found"]
          ELSE [Pending EXCEPT !.kind = "details", !.status = "Error"]
    /\ pc' = "done"
    /\ UNCHANGED <<provider, op, location, countryArg, results, countries,
                   locations, selected, coordinates, message, countryPrompts,
                   candPrompts, countryEntry,
                   candEntry, searchRequests>>

\* The call is over and the same process calls geocode again, on the same
\* GeocodingService or on another one: nothing of the call is kept (lines
\* 17-25, the object holds only its URL, console and logger).  What the
\* earlier call was given and returned is remembered for comparison.
Restart ==
    /\ pc = "done"
    /\ op = "geocode"
    /\ countryArg = NoArg
    /\ ~InvalidLocation(location)
    /\ ~earlier.made
    /\ earlier' = [made |-> TRUE, location |-> location,
                   countries |-> countries,
                   countryEntry |-> countryEntry, candEntry |-> candEntry,
                   result |-> result]
    /\ pc' = "idle"
    /\ op' = ""
    /\ location' = [isStr |-> FALSE, text |-> <<>>, truthy |-> FALSE]
    /\ countryArg' = NoArg
    /\ results' = <<>>
    /\ countries' = <<>>
    /\ locations' = <<>>
    /\ selected' = 0
    /\ coordinates' = NoCoordinates
    /\ result' = Pending
    /\ message' = ""
    /\ countryPrompts' = 0
    /\ candPrompts' = 0
    /\ countryEntry' = NoEntry
    /\ candEntry' = NoEntry
    /\ searchRequests' = 0
    /\ reverseRequests' = 0
    /\ UNCHANGED <<provider, weatherVars, jsonVars, keyVars, agentVars>>

Next ==
    \/ \E o \in Methods, loc \in Locations, c \in CountryArgs :
          /\ (o = "get_location_details" => c = NoArg)
          /\ Call(o, loc, c)
    \/ SearchRequest
    \/ \E entry \in Entries : CountryRead(entry)
    \/ \E entry \in Entries : CandidateRead(entry)
    \/ \E ok \in BOOLEAN : ReverseRequest(ok)

Spec == Init /\ [][Next]_vars

\* A geocode call, with an empty location or with a name, that comes to
\* each of its steps, with a user who, at a prompt, does not go on entering
\* invalid choices for ever: input() blocks until an entry is typed, and
\* the loops of lines 173-192 and 222-232 end on the first entry that is a
\* choice.
LiveLocations ==
    {loc \in Locations : loc.isStr /\ loc.text \in {<<>>, <<"a">>}}

NextLive ==
    \/ \E loc \in LiveLocations : Call("geocode", loc, NoArg)
    \/ SearchRequest
    \/ \E entry \in Entries : CountryRead(entry)
    \/ \E entry \in Entries : CandidateRead(entry)

\* The provider's answers in which only the first result may be
\* irregular: the prompts are the same wherever an irregular result sits.
LiveProviders ==
    {p \in ProviderBehaviours :
        p.kind = "list"
        => \A i \in 2..Len(p.body) :
              Wellformed(p.body[i]) /\ p.body[i].display_name.present}

InitLive ==
    /\ provider \in LiveProviders
    /\ CallIdle
    /\ earlier = NoEarlier
    /\ WeatherIdle
    /\ JsonIdle
    /\ KeysIdle
    /\ AgentIdle

SpecLive ==
    /\ InitLive
    /\ [][NextLive]_vars
    /\ WF_vars(SearchRequest)
    /\ WF_vars(\E entry \in Entries :
                  /\ CountryRead(entry) \/ CandidateRead(entry)
                  /\ pc' # pc)

\* Two geocode calls in a row, the second with the location of the first.
NextTwoCalls ==
    \/ \E loc \in Locations :
          /\ earlier.made => loc = earlier.location
          /\ Call("geocode", loc, NoArg)
    \/ SearchRequest
    \/ \E entry \in Entries : CountryRead(entry)
    \/ \E entry \in Entries : CandidateRead(entry)
    \/ Restart

SpecTwoCalls == Init /\ [][NextTwoCalls]_vars

(***************************************************************************)
(* WeatherDataService.get_weather (src/modules/weather_data.py).  The      *)
(* weather provider is the environment: what it does with the request is   *)
(* chosen when the request is sent.                                        *)
(***************************************************************************)
\* The state of the geocoding call, which get_weather does not touch.
geocodingVars ==
    <<pc, provider, op, location, countryArg, results, countries, locations,
      selected, coordinates, result, message, countryPrompts, candPrompts,
      countryEntry, candEntry, searchRequests, reverseRequests, earlier>>

\* Lines 49 and 51: the valid ranges, in degrees.
MinLatitude == -90
MaxLatitude == 90
MinLongitude == -180
MaxLongitude == 180

\* Line 49, `-90 <= latitude <= 90`.
LatitudeInRange_Strict(lat) == MinLatitude < lat /\ lat < MaxLatitude

LatitudeInRange(lat) == MinLatitude <= lat /\ lat <= MaxLatitude

\* Line 51, `-180 <= longitude <= 180`.
LongitudeInRange(lon) == MinLongitude <= lon /\ lon <= MaxLongitude

\* Latitudes and longitudes a caller passes: the ends of the ranges, their
\* neighbours on both sides, and 0.
Latitudes ==
    {MinLatitude - 1, MinLatitude, MinLatitude + 1, 0,
     MaxLatitude - 1, MaxLatitude, MaxLatitude + 1}
Longitudes ==
    {MinLongitude - 1, MinLongitude, MinLongitude + 1, 0,
     MaxLongitude - 1, MaxLongitude, MaxLongitude + 1}

\* What the weather provider does with a request: it fails as the
\* geocoding provider can, or answers with a JSON body.
WeatherBehaviours == FailureKinds \cup {"json"}

\* Outcomes of get_weather.
WReturnData == [kind |-> "data", exc |-> "", msg |-> ""]
WReturnNone(m) == [kind |-> "None", exc |-> "", msg |-> m]
WRaise(e, m) == [kind |-> "raised", exc |-> e, msg |-> m]

\* Lines 76-90: the except clauses of get_weather, in order.
WeatherHandleException(exc) ==
    LET cls == ClassesOf(exc) IN
    IF "HTTPError" \in cls THEN WReturnNone("HTTP Error")
    ELSE IF "ConnectionError" \in cls THEN WReturnNone("Connection Error")
    ELSE IF "Timeout" \in cls THEN WReturnNone("Timeout Error")
    ELSE IF "RequestException" \in cls THEN WReturnNone("Request Error")
    ELSE IF "ValueError" \in cls
         THEN WReturnNone("Data Error: Could not parse API response")
    ELSE WRaise(exc, "")

\* get_weather returns or raises `outcome`.
WeatherReturn(outcome) ==
    /\ wresult' = [kind |-> outcome.kind, exc |-> outcome.exc]
    /\ wmessage' = outcome.msg
    /\ wpc' = "done"

\* Lines 27-66: get_weather(lat, lon, fc) checks the latitude, then the
\* longitude, then builds the parameters of the request.
GetWeather(lat, lon, fc) ==
    /\ wpc = "idle"
    /\ latitude' = lat
    /\ longitude' = lon
    /\ include_forecast' = fc
    /\ IF ~LatitudeInRange(lat)
       THEN WeatherReturn(WRaise("ValueError",
                "Latitude must be between -90 and 90 degrees"))
       ELSE IF ~LongitudeInRange(lon)
       THEN WeatherReturn(WRaise("ValueError",
                "Longitude must be between -180 and 180 degrees"))
       ELSE /\ wpc' = "request"
            /\ UNCHANGED <<wresult, wmessage>>
    /\ UNCHANGED <<weatherRequests, geocodingVars, jsonVars, keyVars,
                   agentVars>>

\* Lines 68-92: the request, and the parsing of its response.
WeatherRequest(behaviour) ==
    /\ wpc = "request"
    /\ weatherRequests' = weatherRequests + 1
    /\ IF behaviour \in FailureKinds
       THEN \E e \in RaisedBy(behaviour) :
               WeatherReturn(WeatherHandleException(e))
       ELSE WeatherReturn(WReturnData)
    /\ UNCHANGED <<latitude, longitude, include_forecast, geocodingVars,
                   jsonVars, keyVars, agentVars>>

\* A WeatherDataService on its own: no geocoding call is under way.
InitWeather ==
    /\ provider = [kind |-> "null", body |-> <<>>]
    /\ CallIdle
    /\ earlier = NoEarlier
    /\ WeatherIdle
    /\ JsonIdle
    /\ KeysIdle
    /\ AgentIdle

NextWeather ==
    \/ \E lat \in Latitudes, lon \in Longitudes, fc \in BOOLEAN :
          GetWeather(lat, lon, fc)
    \/ \E behaviour \in WeatherBehaviours : WeatherRequest(behaviour)

SpecWeather == InitWeather /\ [][NextWeather]_vars

(***************************************************************************)
(* The JSON methods of WeatherDataService: get_weather_json,               *)
(* get_forecast_json and get_complete_weather_json.  Each get_weather call *)
(* they make is one step, taken with what the provider answers to it.  The *)
(* number of forecast days is not followed.                                *)
(***************************************************************************)
JsonMethods ==
    {"get_weather_json", "get_forecast_json", "get_complete_weather_json"}

\* The JSON body of a weather response: a falsy value (null, {}), a truthy
\* value that is no container (a number), a list, or an object whose
\* "current_weather" and "daily" members are absent, complete, or lack a
\* key the formatting reads.
PartForms == {"absent", "complete", "incomplete"}
WeatherBody(k, c, d) == [kind |-> k, current_weather |-> c, daily |-> d]
WeatherBodies ==
    {WeatherBody(k, "absent", "absent") : k \in {"null", "scalar", "list"}}
    \cup {WeatherBody("object", c, d) : c \in PartForms, d \in PartForms}

\* What the weather provider does with one request: it fails, or answers
\* with a body.
WeatherAnswers ==
    {[failure |-> k, body |-> WeatherBody("null", "absent", "absent")] :
        k \in FailureKinds}
    \cup {[failure |-> "", body |-> b] : b \in WeatherBodies}

\* get_weather as a whole (lines 49-92): the range checks, then the
\* request, which raises e when the provider fails.
FetchOutcome(lat, lon, answer, e) ==
    IF ~LatitudeInRange(lat)
    THEN WRaise("ValueError", "Latitude must be between -90 and 90 degrees")
    ELSE IF ~LongitudeInRange(lon)
    THEN WRaise("ValueError",
                "Longitude must be between -180 and 180 degrees")
    ELSE IF answer.failure # "" THEN WeatherHandleException(e)
    ELSE WReturnData

\* The exceptions the provider's answer can raise inside the request.
RaisedByAnswer(answer) ==
    IF answer.failure # "" THEN RaisedBy(answer.failure) ELSE {""}

\* Whether get_weather gets as far as its request.
SendsRequest(lat, lon) == LatitudeInRange(lat) /\ LongitudeInRange(lon)

\* The dictionaries the JSON methods return.
NoLocation == [present |-> FALSE, latitude |-> 0, longitude |-> 0]
LocationOf(lat, lon) == [present |-> TRUE, latitude |-> lat, longitude |-> lon]
JDict(ok, msg, loc, cur, fc, un) ==
    [kind |-> "dict", success |-> ok, message |-> msg, location |-> loc,
     current |-> cur, forecast |-> fc, units |-> un]
\* {"status": {"success": False, "message": msg}}
JFailure(msg) == JDict(FALSE, msg, NoLocation, "absent", "absent", {})
\* The `except Exception` of a JSON method: "Error: " and str(e).
JError(detail) == JFailure([text |-> "Error", detail |-> detail])
JMessage(text) == [text |-> text, detail |-> ""]

\* Lines 480-531: get_weather_json, given what its get_weather call
\* returned or raised.
WeatherJsonOf(lat, lon, outcome, body) ==
    IF outcome.kind = "raised" THEN JError(outcome.msg)
    ELSE IF outcome.kind = "None" \/ body.kind \in {"null", "list"}
    THEN JFailure(JMessage("Failed to retrieve weather data"))
    ELSE IF body.kind = "scalar" THEN JError("TypeError")
    ELSE IF body.current_weather = "absent"
    THEN JFailure(JMessage("Failed to retrieve weather data"))
    ELSE IF body.current_weather = "incomplete" THEN JError("KeyError")
    ELSE JDict(TRUE, JMessage("Weather data retrieved successfully"),
               LocationOf(lat, lon), "present", "absent",
               {"temperature", "wind_speed"})

\* Lines 575-634: get_forecast_json, likewise.
ForecastJsonOf(lat, lon, outcome, body) ==
    IF outcome.kind = "raised" THEN JError(outcome.msg)
    ELSE IF outcome.kind = "None" \/ body.kind \in {"null", "list"}
    THEN JFailure(JMessage("Failed to retrieve forecast data"))
    ELSE IF body.kind = "scalar" THEN JError("TypeError")
    ELSE IF body.daily = "absent"
    THEN JFailure(JMessage("Failed to retrieve forecast data"))
    ELSE IF body.daily = "incomplete" THEN JError("KeyError")
    ELSE JDict(TRUE, JMessage("Forecast data retrieved successfully"),
               LocationOf(lat, lon), "absent", "present",
               {"temperature", "precipitation"})

\* Lines 659-680: the combination of the two dictionaries.
CombinedSuccess_Either(cur, fc) == cur.success \/ fc.success

CombinedSuccess(cur, fc) == cur.success /\ fc.success

CompleteJsonOf(lat, lon, cur, fc) ==
    JDict(CombinedSuccess(cur, fc),
          IF CombinedSuccess(cur, fc)
          THEN JMessage("Complete weather data retrieved successfully")
          ELSE JMessage("Partial or no data retrieved"),
          IF cur.location.present THEN cur.location ELSE LocationOf(lat, lon),
          cur.current, fc.forecast, cur.units \cup fc.units)

\* A caller invokes a JSON method with a latitude and a longitude.
JsonCall(method, lat, lon) ==
    /\ wpc = "idle"
    /\ wop = "none"
    /\ wop' = method
    /\ latitude' = lat
    /\ longitude' = lon
    /\ wpc' = IF method = "get_forecast_json" THEN "forecast" ELSE "current"
    /\ UNCHANGED <<include_forecast, wresult, wmessage, weatherRequests,
                   current_data, forecast_data, jresult, geocodingVars,
                   keyVars, agentVars>>

\* get_weather_json as a whole, called by the caller or by
\* get_complete_weather_json (line 656).  Its `except Exception` lets no
\* exception out.
JsonCurrent(answer) ==
    /\ wpc = "current"
    /\ include_forecast' = FALSE
    /\ weatherRequests' =
          weatherRequests + IF SendsRequest(latitude, longitude) THEN 1 ELSE 0
    /\ \E e \in RaisedByAnswer(answer) :
          LET outcome == FetchOutcome(latitude, longitude, answer, e)
              data == WeatherJsonOf(latitude, longitude, outcome, answer.body)
          IN  /\ wresult' = [kind |-> outcome.kind, exc |-> outcome.exc]
              /\ wmessage' = outcome.msg
              /\ current_data' = data
              /\ IF wop = "get_weather_json"
                 THEN jresult' = data /\ wpc' = "done"
                 ELSE jresult' = jresult /\ wpc' = "forecast"
    /\ UNCHANGED <<wop, latitude, longitude, forecast_data, geocodingVars,
                   keyVars, agentVars>>

\* get_forecast_json as a whole, called by the caller or by
\* get_complete_weather_json (line 657), which then combines the two.
JsonForecast(answer) ==
    /\ wpc = "forecast"
    /\ include_forecast' = TRUE
    /\ weatherRequests' =
          weatherRequests + IF SendsRequest(latitude, longitude) THEN 1 ELSE 0
    /\ \E e \in RaisedByAnswer(answer) :
          LET outcome == FetchOutcome(latitude, longitude, answer, e)
              data == ForecastJsonOf(latitude, longitude, outcome,
                                     answer.body)
          IN  /\ wresult' = [kind |-> outcome.kind, exc |-> outcome.exc]
              /\ wmessage' = outcome.msg
              /\ forecast_data' = data
              /\ jresult' =
                    IF wop = "get_forecast_json" THEN data
                    ELSE CompleteJsonOf(latitude, longitude, current_data,
                                        data)
    /\ wpc' = "done"
    /\ UNCHANGED <<wop, latitude, longitude, current_data, geocodingVars,
                   keyVars, agentVars>>

NextWeatherJson ==
    \/ \E method \in JsonMethods, lat \in Latitudes, lon \in Longitudes :
          JsonCall(method, lat, lon)
    \/ \E answer \in WeatherAnswers : JsonCurrent(answer)
    \/ \E answer \in WeatherAnswers : JsonForecast(answer)

SpecWeatherJson == InitWeather /\ [][NextWeatherJson]_vars

(***************************************************************************)
(* KeyManager (src/modules/key_manager.py), after its construction has     *)
(* loaded the .env file into the environment.                              *)
(***************************************************************************)
\* os.environ.get(key_name): the value, or None.
EnvironGet(env, key_name) == env[key_name]

\* Line 42, `key_value is None`, negated.
GetKeyFound_Truthy(key_value) == key_value \notin {Absent, ""}

GetKeyFound(key_value) == key_value # Absent

\* Line 56, `key_name in os.environ`.
InEnviron_NonEmpty(env, key_name) == env[key_name] \notin {Absent, ""}

InEnviron(env, key_name) == env[key_name] # Absent

KeyReturn(value) ==
    [kind |-> "returned", val |-> value, exc |-> "", msg |-> NoKeyMessage]
KeyRaise(exc, m) == [kind |-> "raised", val |-> "", exc |-> exc, msg |-> m]
\* The None a method without a return statement returns.
KeyNone == "<None>"

\* Lines 41-44: get_key.
GetKeyOutcome(env, key_name) ==
    LET key_value == EnvironGet(env, key_name) IN
    IF ~GetKeyFound(key_value)
    THEN KeyRaise("ValueError", KeyNotFound(key_name))
    ELSE KeyReturn(key_value)

\* Lines 56-57: validate_key.
ValidateKeyOutcome(env, key_name) ==
    IF ~InEnviron(env, key_name)
    THEN KeyRaise("ValueError", KeyNotFound(key_name))
    ELSE KeyReturn(KeyNone)

GetKey(key_name) ==
    /\ keyCall.method = "none"
    /\ keyCall' = [method |-> "get_key", key_name |-> key_name]
    /\ keyResult' = GetKeyOutcome(environ, key_name)
    /\ UNCHANGED <<environ, geocodingVars, weatherVars, jsonVars, agentVars>>

ValidateKey(key_name) ==
    /\ keyCall.method = "none"
    /\ keyCall' = [method |-> "validate_key", key_name |-> key_name]
    /\ keyResult' = ValidateKeyOutcome(environ, key_name)
    /\ UNCHANGED <<environ, geocodingVars, weatherVars, jsonVars, agentVars>>

\* Any environment, and a KeyManager on its own.
InitKeys ==
    /\ provider = [kind |-> "null", body |-> <<>>]
    /\ CallIdle
    /\ earlier = NoEarlier
    /\ WeatherIdle
    /\ JsonIdle
    /\ AgentIdle
    /\ environ \in Environments
    /\ KeyIdle

NextKeys ==
    \/ \E key_name \in KeyNames : GetKey(key_name)
    \/ \E key_name \in KeyNames : ValidateKey(key_name)

SpecKeys == InitKeys /\ [][NextKeys]_vars

(***************************************************************************)
(* The weather tool get_weather_data(city, country) of                     *)
(* src/agents/weather_agent.py (a method of WeatherAgent) and of           *)
(* src/playground/agent_weather.py (a function), and                       *)
(* WeatherAgent.process_query, during which the model may call the tool.   *)
(***************************************************************************)
\* The two definitions of the tool.
Tools == {"WeatherAgent", "agent_weather"}

\* The country the tool passes on: its parameter defaults to None and is
\* always handed to geocode as a second positional argument.
ToolCountries == CountryArgs \ {NoArg}

\* What a tool or process_query hands back: a string, a dictionary, None,
\* a pair of those, or an exception.
Shape(k) == [kind |-> k, first |-> "", second |-> "", exc |-> ""]
ShapePair(a, b) == [kind |-> "pair", first |-> a, second |-> b, exc |-> ""]
ShapeRaised(e) == [kind |-> "raised", first |-> "", second |-> "", exc |-> e]
\* {"error": ...}
ErrorDict == [kind |-> "dict", first |-> "error", second |-> "", exc |-> ""]
\* The dictionary of get_complete_weather_json.
WeatherDict ==
    [kind |-> "dict", first |-> "weather", second |-> "", exc |-> ""]

\* weather_agent.py line 63, agent_weather.py line 29:
\* geocoding.geocode(city, country).
ToolCall(caller, city, country) ==
    /\ tool = "none"
    /\ apc = IF caller = "WeatherAgent" THEN "generating" ELSE "idle"
    /\ tool' = caller
    /\ Bind("geocode", city, country)
    /\ UNCHANGED <<earlier, weatherVars, jsonVars, keyVars, apc, return_type,
                   print_to_terminal, toolResult, queryResult>>

\* geocode has returned or raised: weather_agent.py lines 64-78 (whatever
\* is raised is caught and reported in a dictionary), agent_weather.py
\* lines 30-36 (no try).  With coordinates the tool goes on to
\* get_complete_weather_json.
ToolGeocoded ==
    /\ tool \in Tools
    /\ toolResult = NoShape
    /\ pc = "done"
    /\ wop = "none"
    /\ IF result.kind = "raised"
       THEN /\ toolResult' =
                  IF tool = "WeatherAgent" THEN ErrorDict
                  ELSE ShapeRaised(result.exc)
            /\ UNCHANGED <<weatherVars, jsonVars>>
       ELSE IF result.kind = "None"
       THEN /\ toolResult' = ErrorDict
            /\ UNCHANGED <<weatherVars, jsonVars>>
       ELSE /\ wop' = "get_complete_weather_json"
            /\ latitude' = result.lat
            /\ longitude' = result.lon
            /\ wpc' = "current"
            /\ UNCHANGED <<toolResult, include_forecast, wresult, wmessage,
                           weatherRequests, current_data, forecast_data,
                           jresult>>
    /\ UNCHANGED <<geocodingVars, keyVars, apc, return_type,
                   print_to_terminal, tool, queryResult>>

\* return_type: "text", "json", or anything else, which is treated as
\* "both" (lines 206-216).
ReturnTypes == {"text", "json", "both"}

\* The query: plain text, or text in which the console finds markup it
\* cannot render, such as a closing tag without an opening one.
Queries == {"plain", "markup"}

\* What generate_content does: it raises, or returns a response whose
\* `text` is a string, is None (no text part), or raises when read, and
\* whose first part is missing, is text (its function_call is None), or is
\* a function call with or without arguments.
Response(r, t, p) == [raises |-> r, text |-> t, part |-> p]
Responses ==
    {Response(TRUE, "None", "none"),
     Response(FALSE, "str", "text"),
     Response(FALSE, "None", "none"),
     Response(FALSE, "None", "call"),
     Response(FALSE, "None", "call_without_args"),
     Response(FALSE, "raises", "call")}

\* Lines 90-97: extract_response_text.
ExtractText(response) ==
    IF response.text = "raises" THEN Shape("str") ELSE Shape(response.text)

\* Lines 109-137: extract_response_json.  Every part has the attribute
\* function_call, so the first part decides; without parts the text is
\* searched for JSON.
ExtractJson(response) ==
    CASE response.part = "call" -> Shape("dict")
      [] response.part = "call_without_args" -> Shape("None")
      [] response.part = "text" -> ErrorDict
      [] response.part = "none" ->
            IF ExtractText(response).kind = "str" THEN Shape("dict")
            ELSE ErrorDict

\* Lines 139-154: display_weather_report prints a panel of the text when
\* print_to_terminal is set; a panel of None cannot be rendered.
DisplayRaises(ptt, text) == ptt /\ text.kind # "str"

\* Lines 225-235: the shape of the result of the except clause.
ErrorShape(rt) ==
    CASE rt = "text" -> Shape("str")
      [] rt = "json" -> ErrorDict
      [] OTHER -> ShapePair(Shape("str"), ErrorDict)

\* Lines 196-235: process_query from generate_content on.
ProcessQueryOutcome(rt, ptt, response) ==
    LET text_response == ExtractText(response)
        json_response == ExtractJson(response)
    IN  IF response.raises THEN ErrorShape(rt)
        ELSE CASE rt = "text" ->
                    IF DisplayRaises(ptt, text_response) THEN ErrorShape(rt)
                    ELSE text_response
               [] rt = "json" -> json_response
               [] OTHER ->
                    IF DisplayRaises(ptt, text_response) THEN ErrorShape(rt)
                    ELSE ShapePair(text_response, json_response)

\* Lines 187-194: process_query(query) on an agent built with return type
\* rt and print_to_terminal ptt prints the query, outside the try block.
ProcessQuery(rt, ptt, query) ==
    /\ apc = "idle"
    /\ tool = "none"
    /\ return_type' = rt
    /\ print_to_terminal' = ptt
    /\ IF ptt /\ query = "markup"
       THEN /\ queryResult' = ShapeRaised("MarkupError")
            /\ apc' = "done"
       ELSE /\ queryResult' = queryResult
            /\ apc' = "generating"
    /\ UNCHANGED <<geocodingVars, weatherVars, jsonVars, keyVars, tool,
                   toolResult>>

\* generate_content returns or raises, after the tool calls it made.
Generate(response) ==
    /\ apc = "generating"
    /\ tool = "none" \/ toolResult # NoShape
    /\ queryResult' =
          ProcessQueryOutcome(return_type, print_to_terminal, response)
    /\ apc' = "done"
    /\ UNCHANGED <<geocodingVars, weatherVars, jsonVars, keyVars,
                   return_type, print_to_terminal, tool, toolResult>>

\* Responses of at most one candidate, failures and odd bodies.
ToolProviders ==
    {p \in ProviderBehaviours : p.kind = "list" => Len(p.body) <= 1}

\* A WeatherAgent and the playground script, with a provider that would
\* answer the tool's search as fixed here.
InitAgent ==
    /\ provider \in ToolProviders
    /\ CallIdle
    /\ earlier = NoEarlier
    /\ WeatherIdle
    /\ JsonIdle
    /\ KeysIdle
    /\ AgentIdle

NextAgent ==
    \/ \E rt \in ReturnTypes, ptt \in BOOLEAN, query \in Queries :
          ProcessQuery(rt, ptt, query)
    \/ \E caller \in Tools, city \in Locations, country \in ToolCountries :
          ToolCall(caller, city, country)
    \/ ToolGeocoded
    \/ \E response \in Responses : Generate(response)

SpecAgent == InitAgent /\ [][NextAgent]_vars

(***************************************************************************)
(* Vocabulary of the properties.                                           *)
(***************************************************************************)
\* The distinct countries the candidates of a response carry.
CountriesIn(body) == {body[i].address : i \in 1..Len(body)} \cap Countries

\* The ranks of the candidates of country c, in provider order.
RanksOf(body, c) == {i \in 1..Len(body) : body[i].address = c}

\* The provider answered the search request with a list of candidates.
Answered == searchRequests = 1 /\ provider.kind = "list"

\* The location is a string with something else than blanks in it.
ValidText(loc) ==
    loc.isStr /\ \E i \in 1..Len(loc.text) : loc.text[i] # " "

\* geocode(location) was called with a valid location.
GeocodeCall == op = "geocode" /\ countryArg = NoArg /\ ValidText(location)

\* _get_coordinates_with_disambiguation has returned or raised.
ResolutionOver == pc \in {"reverse", "done"}

\* The highest-ranked candidate of country c.
TopRankOf(body, c) ==
    CHOOSE i \in RanksOf(body, c) : \A j \in RanksOf(body, c) : i <= j

NoPrompt ==
    /\ countryPrompts = 0 /\ candPrompts = 0
    /\ countryEntry = NoEntry /\ candEntry = NoEntry

CoordsOf(c) == [Pending EXCEPT !.kind = "coords", !.lat = c.lat.val,
                               !.lon = c.lon.val]

CancelEntry == [kind |-> "int", val |-> 0]

(***************************************************************************)
(* C1 as stated: for a non-empty response with exactly one distinct        *)
(* country, geocode returns the coordinates of results[0] and issues no    *)
(* prompt.                                                                 *)
(***************************************************************************)
C1_AlwaysResolved ==
    (/\ GeocodeCall /\ pc = "done" /\ Answered
     /\ provider.body # <<>>
     /\ Cardinality(CountriesIn(provider.body)) = 1)
    => /\ result = CoordsOf(provider.body[1])
       /\ NoPrompt

(***************************************************************************)
(* C1, amended: for a non-empty response with exactly one distinct         *)
(* country, no prompt is ever issued and results[0] is the selected        *)
(* candidate; geocode returns its coordinates when its lat and lon are     *)
(* texts of numbers, and returns no coordinates otherwise.                 *)
(***************************************************************************)
C1_SingleCountryTopRanked ==
    (/\ GeocodeCall /\ Answered
     /\ provider.body # <<>>
     /\ Cardinality(CountriesIn(provider.body)) = 1)
    => /\ NoPrompt
       /\ pc = "done"
       /\ selected = 1
       /\ Wellformed(provider.body[1])
             => result = CoordsOf(provider.body[1])
       /\ ~Wellformed(provider.body[1]) => result.kind # "coords"

\* One country with two candidates, resolved to the first of them.
C1_Witness ==
    /\ GeocodeCall /\ pc = "done" /\ Answered
    /\ Len(provider.body) >= 2
    /\ Cardinality(CountriesIn(provider.body)) = 1
    /\ provider.body[1].address \in Countries
    /\ provider.body[2].address = provider.body[1].address
    /\ result = CoordsOf(provider.body[1])

(***************************************************************************)
(* C2: when the candidates of the response span two or more countries,     *)
(* exactly one country-selection prompt is issued, and a                   *)
(* candidate-selection prompt only exists once a country has been chosen   *)
(* at that prompt.                                                         *)
(***************************************************************************)
C2_OneCountryPromptFirst ==
    /\ (Answered /\ Cardinality(CountriesIn(provider.body)) >= 2)
          => countryPrompts = 1
    /\ candPrompts >= 1
          => /\ countryPrompts = 1
             /\ countryEntry.kind = "int"
             /\ countryEntry.val >= 1
    /\ pc = "candidate_prompt" => candPrompts = 1

\* Two countries, a country chosen, then a candidate chosen.
C2_Witness ==
    /\ GeocodeCall /\ pc = "done"
    /\ Cardinality(CountriesIn(provider.body)) >= 2
    /\ countryPrompts = 1
    /\ candPrompts = 1
    /\ result.kind = "coords"

C4_ZeroCandidatesNotFound ==
    (GeocodeCall /\ provider.kind = "list" /\ provider.body = <<>>)
    => /\ NoPrompt
       /\ searchRequests = 1
             => /\ pc = "done"
                /\ result = [Pending EXCEPT !.kind = "None"]
                /\ message = "Location not found"

C4_Witness ==
    /\ GeocodeCall /\ pc = "done" /\ Answered
    /\ provider.body = <<>>
    /\ result.kind = "None"
    /\ message = "Location not found"

(***************************************************************************)
(* C5: a call geocode(city, country) whose country is the country of one   *)
(* of the candidates returns the coordinates of that country's top-ranked  *)
(* candidate (its lat and lon being texts of numbers) and issues no        *)
(* prompt.                                                                 *)
(***************************************************************************)
C5_MatchingHintResolves ==
    (/\ op = "geocode" /\ pc = "done" /\ ValidText(location)
     /\ provider.kind = "list"
     /\ countryArg \in CountriesIn(provider.body)
     /\ Wellformed(provider.body[TopRankOf(provider.body, countryArg)]))
    => /\ result = CoordsOf(provider.body[TopRankOf(provider.body, countryArg)])
       /\ NoPrompt

(***************************************************************************)
(* C6: a call geocode(city, country) whose country is the country of none  *)
(* of the candidates goes through the search and, when the candidates span *)
(* two or more countries, the country prompt, as a call without country.   *)
(***************************************************************************)
C6_UnmatchedHintFallsBack ==
    (/\ op = "geocode" /\ pc = "done" /\ ValidText(location)
     /\ provider.kind = "list"
     /\ countryArg \notin {NoArg, PyNone}
     /\ countryArg \notin CountriesIn(provider.body))
    => /\ searchRequests = 1
       /\ result # Raised("TypeError") \/ selected # 0
       /\ Cardinality(CountriesIn(provider.body)) >= 2 => countryPrompts = 1

(***************************************************************************)
(* C7: geocode and get_location_details called with a location that is    *)
(* empty, blank or no string raise ValueError at once: no request is sent  *)
(* and no prompt is issued.                                                *)
(***************************************************************************)
C7_InvalidLocationRejected ==
    (op \in Methods /\ countryArg = NoArg /\ ~ValidText(location))
    => /\ pc = "done"
       /\ result = Raised("ValueError")
       /\ searchRequests = 0
       /\ reverseRequests = 0
       /\ NoPrompt

\* get_location_details("  ") was rejected.
C7_Witness ==
    /\ op = "get_location_details"
    /\ location.isStr
    /\ location.text = <<" ", " ">>
    /\ result = Raised("ValueError")
    /\ pc = "done"

(***************************************************************************)
(* C8: geocode called with a valid location never raises, whatever the     *)
(* provider does.                                                          *)
(***************************************************************************)
C8_NeverRaises == GeocodeCall => result.kind # "raised"

(***************************************************************************)
(* C9: when the lat or lon of the selected candidate is no text of a       *)
(* number (missing, not numeric, null), geocode returns None after         *)
(* reporting a data error.                                                 *)
(***************************************************************************)
C9_CoercionFailureUnresolved ==
    (/\ GeocodeCall /\ pc = "done"
     /\ selected # 0
     /\ ~Wellformed(results[selected]))
    => /\ result = [Pending EXCEPT !.kind = "None"]
       /\ message = "Data Error"

(***************************************************************************)
(* C10: once a country is chosen at the country prompt, a group of more    *)
(* than one candidate is put, whole and in provider order, to exactly one  *)
(* candidate-selection prompt whose pick is the selected candidate; a      *)
(* group of one is selected with no further prompt.                        *)
(***************************************************************************)
C10_RefinementAfterCountry ==
    (/\ countryEntry.kind = "int"
     /\ 1 <= countryEntry.val
     /\ countryEntry.val <= Cardinality(CountriesIn(results)))
    => LET grp == RanksOf(results, countries[countryEntry.val].country) IN
       /\ Cardinality(grp) > 1
             => /\ candPrompts = 1
                /\ Len(locations) = Cardinality(grp)
                /\ \A i \in 1..Len(locations) : locations[i] \in grp
                /\ \A i, j \in 1..Len(locations) :
                      i < j => locations[i] < locations[j]
                /\ IF ResolutionOver
                   THEN /\ candEntry.kind = "int"
                        /\ candEntry.val \in 1..Len(locations)
                        /\ selected = locations[candEntry.val]
                   ELSE pc = "candidate_prompt" /\ selected = 0
       /\ Cardinality(grp) = 1
             => /\ candPrompts = 0
                /\ candEntry = NoEntry
                /\ ResolutionOver
                /\ selected \in grp

\* The second candidate of a group of two was picked at the candidate
\* prompt.
C10_Witness ==
    /\ GeocodeCall /\ pc = "done"
    /\ candPrompts = 1
    /\ Len(locations) = 2
    /\ selected = locations[2]
    /\ result = CoordsOf(results[selected])

\* A country with a single candidate was chosen: no second prompt.
C10_WitnessSingle ==
    /\ GeocodeCall /\ pc = "done"
    /\ countryPrompts = 1
    /\ countryEntry.kind = "int" /\ countryEntry.val >= 1
    /\ candPrompts = 0
    /\ result = CoordsOf(results[selected])

C12_CountryTableInProviderOrder ==
    countryPrompts = 1
    => LET table == CountryTable(countries, results) IN
       /\ Len(table) = Cardinality(CountriesIn(results))
       /\ \A k \in 1..Len(table) :
             /\ table[k].number = k
             /\ table[k].country \in CountriesIn(results)
             /\ LET top == TopRankOf(results, table[k].country) IN
                results[top].display_name.present
                   => table[k].example =
                         [kind |-> "display_name", val |-> DisplayNameOf(top)]
       /\ \A i, j \in 1..Len(table) :
             i < j => TopRankOf(results, table[i].country)
                         < TopRankOf(results, table[j].country)
       /\ (countryEntry.kind = "int" /\ countryEntry.val \in 1..Len(table))
             => LET grp == RanksOf(results, table[countryEntry.val].country)
                IN  /\ pc = "candidate_prompt"
                          => {locations[i] : i \in 1..Len(locations)} = grp
                    /\ ResolutionOver => selected \in grp

\* The first result has no country, the countries of the second and third
\* make the rows 1 and 2, and row 2 was chosen.
C12_Witness ==
    /\ GeocodeCall /\ pc = "done"
    /\ countryPrompts = 1
    /\ ~HasCountry(results[1])
    /\ Len(CountryTable(countries, results)) = 2
    /\ CountryTable(countries, results)[1].country = results[2].address
    /\ CountryTable(countries, results)[1].example.kind = "display_name"
    /\ countryEntry = [kind |-> "int", val |-> 2]
    /\ selected = 3
    /\ result = CoordsOf(results[3])

(***************************************************************************)
(* C13: a resolution that fails tells why: the message printed by geocode, *)
(* and the status message returned by get_location_details, name the kind  *)
(* of the failure (not found, cancelled, malformed provider data,          *)
(* transport).                                                             *)
(***************************************************************************)
\* The kinds of failure the inputs of the call amount to.
FailureKindsOfCall ==
    (IF provider.kind \in FailureKinds THEN {"transport"} ELSE {})
    \cup (IF provider.kind \in {"unparsable", "object", "scalars"}
          THEN {"malformed"} ELSE {})
    \cup (IF provider.kind = "null"
             \/ (provider.kind = "list" /\ provider.body = <<>>)
          THEN {"not found"} ELSE {})
    \cup (IF countryEntry = CancelEntry THEN {"cancelled"} ELSE {})
    \cup (IF selected # 0 /\ ~Wellformed(results[selected])
          THEN {"malformed"} ELSE {})

\* The kind of failure a message of the code names.
KindNamedBy(msg) ==
    CASE msg = "Location not found" -> {"not found"}
      [] msg = "Data Error" -> {"malformed"}
      [] msg \in {"HTTP Error during geocoding", "Connection Error",
                  "Timeout Error", "Request Error during geocoding"}
            -> {"transport"}
      [] OTHER -> {}

C13_FailuresExplainWhy ==
    (/\ op \in Methods /\ countryArg = NoArg /\ ValidText(location)
     /\ pc = "done"
     /\ reverseRequests = 0
     /\ result.kind \in {"None", "details"})
    => /\ KindNamedBy(message) \cap FailureKindsOfCall # {}
       /\ op = "get_location_details"
             => KindNamedBy(result.status) \cap FailureKindsOfCall # {}

(***************************************************************************)
(* C14 as stated: an entry that is no valid selection (out of range or not *)
(* a number) ends the resolution as Unresolved.                            *)
(***************************************************************************)
\* The last entry read at the country prompt is neither 0 nor the number
\* of a country.
InvalidCountryEntry ==
    \/ countryEntry.kind = "text"
    \/ /\ countryEntry.kind = "int"
       /\ \/ countryEntry.val < 0
          \/ countryEntry.val > Cardinality(CountriesIn(results))

\* The last entry read at the candidate prompt is not the number of a
\* candidate.
InvalidCandidateEntry ==
    \/ candEntry.kind = "text"
    \/ /\ candEntry.kind = "int"
       /\ \/ candEntry.val < 1
          \/ candEntry.val > Len(locations)

C14_InvalidEntryEndsUnresolved ==
    (InvalidCountryEntry \/ InvalidCandidateEntry)
    => /\ pc = "done"
       /\ result.kind \in {"None", "details"}

(***************************************************************************)
(* C14, amended: an entry that is no valid selection does not end the      *)
(* resolution: nothing is returned and the same prompt, issued once, is    *)
(* still waiting for an entry.                                             *)
(***************************************************************************)
C14_InvalidEntryAsksAgain ==
    /\ InvalidCountryEntry
          => /\ pc = "country_prompt"
             /\ result = Pending
             /\ selected = 0
             /\ countryPrompts = 1
             /\ candPrompts = 0
    /\ InvalidCandidateEntry
          => /\ pc = "candidate_prompt"
             /\ result = Pending
             /\ selected = 0
             /\ candPrompts = 1

\* 0 was entered at the candidate prompt, which is waiting again.
C14_Witness ==
    /\ GeocodeCall
    /\ pc = "candidate_prompt"
    /\ candEntry = [kind |-> "int", val |-> 0]
    /\ result = Pending

(***************************************************************************)
(* C15: in a geocode call the country-selection prompt is issued at most   *)
(* once and the candidate-selection prompt at most once, so at most two    *)
(* prompts in all, whatever the response and whatever is entered.          *)
(***************************************************************************)
C15_AtMostOnePromptEach ==
    /\ countryPrompts \in {0, 1}
    /\ candPrompts \in {0, 1}
    /\ countryPrompts + candPrompts \in {0, 1, 2}

\* Both prompts were issued in a call over a response of three candidates,
\* after an entry at the candidate prompt.
C15_Witness ==
    /\ GeocodeCall /\ pc = "done"
    /\ Len(results) = 3
    /\ countryPrompts + candPrompts = 2
    /\ candEntry # NoEntry

(***************************************************************************)
(* C16: a call with valid text sends exactly one search request: never a   *)
(* second one, and one as soon as the call has gone past the request,      *)
(* whether it then failed, found nothing, was cancelled or is reading      *)
(* entries at a prompt.                                                    *)
(***************************************************************************)
C16_OneSearchRequest ==
    /\ searchRequests <= 1
    /\ (/\ op \in Methods
        /\ countryArg = NoArg
        /\ ValidText(location)
        /\ pc \in {"country_prompt", "candidate_prompt", "reverse", "done"})
       => searchRequests = 1
    /\ pc \in {"idle", "request"} => searchRequests = 0

\* A call whose only search request failed in transport is over.
C16_Witness ==
    /\ GeocodeCall /\ pc = "done"
    /\ provider.kind \in FailureKinds
    /\ searchRequests = 1
    /\ result.kind = "None"

\* An invalid entry was read at a prompt after the only search request.
C16_WitnessInvalidEntry ==
    /\ GeocodeCall
    /\ pc = "country_prompt"
    /\ InvalidCountryEntry
    /\ searchRequests = 1

(***************************************************************************)
(* C17: the latitude and the longitude geocode returns are the "lat" and   *)
(* the "lon" of one and the same candidate of the response the provider    *)
(* gave to this call, and that candidate is the selected one.              *)
(***************************************************************************)
C17_CoordinatesOfOneCandidate ==
    (op = "geocode" /\ result.kind = "coords")
    => /\ results = provider.body
       /\ \E i \in 1..Len(provider.body) :
             /\ Wellformed(provider.body[i])
             /\ result.lat = provider.body[i].lat.val
             /\ result.lon = provider.body[i].lon.val
             /\ selected = i

\* The coordinates of the third candidate were returned, after choices at
\* both prompts.
C17_Witness ==
    /\ GeocodeCall /\ pc = "done"
    /\ result.kind = "coords"
    /\ result.lat = LatOf(3)
    /\ result.lon = LonOf(3)
    /\ candPrompts = 1

(***************************************************************************)
(* C18: in the grouping by country no country has an empty list, no        *)
(* country occurs twice, every candidate of the response that has a        *)
(* country is listed exactly once and under its own country, and every     *)
(* list is in the order of the provider response.                          *)
(***************************************************************************)
\* The places (k, j) of the grouping at which the candidate of rank i is
\* listed.
PlacesOf(i) ==
    {kj \in (1..Len(countries)) \X (1..MaxResults) :
        /\ kj[2] <= Len(countries[kj[1]].members)
        /\ countries[kj[1]].members[kj[2]] = i}

C18_GroupingComplete ==
    /\ \A k \in 1..Len(countries) : countries[k].members # <<>>
    /\ \A k, l \in 1..Len(countries) :
          countries[k].country = countries[l].country => k = l
    /\ \A i \in 1..Len(results) :
          results[i].address \in Countries
          => /\ Cardinality(PlacesOf(i)) = 1
             /\ \A kj \in PlacesOf(i) :
                   countries[kj[1]].country = results[i].address
    /\ \A k \in 1..Len(countries) :
          \A j, m \in 1..Len(countries[k].members) :
             j < m => countries[k].members[j] < countries[k].members[m]

\* The first and the third candidate are of one country, the second has
\* none: the country's list is <<1, 3>>.
C18_Witness ==
    /\ Len(results) = 3
    /\ ~HasCountry(results[2])
    /\ Len(countries) = 1
    /\ countries[1].members = <<1, 3>>
    /\ countries[1].country = results[3].address

(***************************************************************************)
(* C19: a candidate without a country is in no list of the grouping; and   *)
(* when the candidates of a non-empty response carry fewer than two        *)
(* distinct countries, none included, results[0] is selected and no prompt *)
(* is issued, whether results[0] has a country or not.                     *)
(***************************************************************************)
C19_NoCountryLeftOut ==
    (op \in Methods /\ Answered /\ results # <<>>)
    => /\ \A k \in 1..Len(countries) :
             \A j \in 1..Len(countries[k].members) :
                results[countries[k].members[j]].address \in Countries
       /\ \A i \in 1..Len(results) :
             results[i].address \notin Countries => PlacesOf(i) = {}
       /\ Cardinality(CountriesIn(results)) < 2
             => /\ Len(countries) = Cardinality(CountriesIn(results))
                /\ ResolutionOver
                /\ selected = 1
                /\ NoPrompt

\* results[0] has an address without a country, the second candidate has a
\* country: the coordinates of results[0] were returned without a prompt.
C19_Witness ==
    /\ GeocodeCall /\ pc = "done"
    /\ Len(results) >= 2
    /\ results[1].address = NoCountryKey
    /\ results[2].address \in Countries
    /\ selected = 1
    /\ NoPrompt
    /\ result = CoordsOf(results[1])

\* No candidate has a country at all: results[0] all the same.
C19_WitnessNoCountry ==
    /\ GeocodeCall /\ pc = "done"
    /\ Len(results) >= 2
    /\ countries = <<>>
    /\ selected = 1
    /\ result = CoordsOf(results[1])

(***************************************************************************)
(* C20: get_weather called with a latitude outside [-90, 90] or a          *)
(* longitude outside [-180, 180] raises ValueError and sends no request;   *)
(* called with coordinates inside the ranges, their ends -90, 90, -180 and *)
(* 180 included, it raises no ValueError and goes on to its one request.   *)
(***************************************************************************)
\* Both coordinates of the call lie in the closed ranges.
InRanges ==
    /\ 0 - 90 <= latitude /\ latitude <= 90
    /\ 0 - 180 <= longitude /\ longitude <= 180

C20_RangesCheckedFirst ==
    wpc # "idle"
    => /\ ~InRanges
          => /\ wpc = "done"
             /\ wresult = [kind |-> "raised", exc |-> "ValueError"]
             /\ weatherRequests = 0
       /\ InRanges
          => /\ wresult.kind # "raised"
             /\ \/ wpc = "request" /\ weatherRequests = 0
                \/ wpc = "done" /\ weatherRequests = 1

\* The call with the north pole on the antimeridian was answered.
C20_Witness ==
    /\ wpc = "done"
    /\ latitude = 90
    /\ longitude = 0 - 180
    /\ weatherRequests = 1
    /\ wresult.kind = "data"

\* A longitude one degree past the range, with a valid latitude, was
\* refused.
C20_WitnessRefused ==
    /\ wpc = "done"
    /\ latitude = 0 - 90
    /\ longitude = 181
    /\ wresult = [kind |-> "raised", exc |-> "ValueError"]
    /\ weatherRequests = 0

(***************************************************************************)
(* C21 as stated: get_weather_json, get_forecast_json and                  *)
(* get_complete_weather_json raise ValueError to their caller when the     *)
(* latitude or the longitude is outside its range.                         *)
(***************************************************************************)
C21_JsonMethodsRaiseValueError ==
    (wop \in JsonMethods /\ wpc = "done" /\ ~InRanges)
    => jresult.kind = "raised"

C30_WitnessBoth ==
    /\ wop = "get_complete_weather_json" /\ wpc = "done"
    /\ jresult.success
    /\ jresult.current = "present"
    /\ jresult.forecast = "present"

(***************************************************************************)
(* C22: get_key(k) returns the value the environment holds for k, the      *)
(* empty string included, when k is present; it raises ValueError with the *)
(* message "Key '<k>' not found in environment variables." when k is       *)
(* absent; and no call changes the environment.                            *)
(***************************************************************************)
GetKeyAsStored ==
    keyCall.method = "get_key"
    => LET k == keyCall.key_name IN
       /\ environ[k] \in KeyValues
             => keyResult = [kind |-> "returned", val |-> environ[k],
                             exc |-> "", msg |-> NoKeyMessage]
       /\ environ[k] = Absent
             => keyResult = [kind |-> "raised", val |-> "",
                             exc |-> "ValueError", msg |-> KeyNotFound(k)]

\* C22: at every moment get_key has answered as the environment holds, and
\* no step of a KeyManager changes the environment.
C22_GetKeyAsStored == []GetKeyAsStored /\ [][environ' = environ]_vars

\* get_key returned the empty string stored for TEST_KEY.
C22_Witness ==
    /\ keyCall = [method |-> "get_key", key_name |-> "TEST_KEY"]
    /\ environ["TEST_KEY"] = ""
    /\ keyResult.kind = "returned"
    /\ keyResult.val = ""

\* get_key raised for a name the environment does not hold.
C22_WitnessAbsent ==
    /\ keyCall = [method |-> "get_key", key_name |-> "NON_EXISTENT_KEY"]
    /\ environ["NON_EXISTENT_KEY"] = Absent
    /\ keyResult.kind = "raised"

(***************************************************************************)
(* C23: validate_key(k) raises ValueError exactly when k is absent from    *)
(* the environment and returns otherwise; and in every environment, for    *)
(* every name, validate_key succeeds if and only if get_key succeeds.      *)
(***************************************************************************)
C23_ValidateIffGetKey ==
    /\ keyCall.method = "validate_key"
          => /\ keyResult.kind \in {"returned", "raised"}
             /\ keyResult.kind = "raised"
                   <=> environ[keyCall.key_name] = Absent
             /\ keyResult.kind = "raised" => keyResult.exc = "ValueError"
    /\ \A k \in KeyNames :
          ValidateKeyOutcome(environ, k).kind = "returned"
          <=> GetKeyOutcome(environ, k).kind = "returned"

\* validate_key accepted GEMINI_API_KEY, whose value is the empty string.
C23_Witness ==
    /\ keyCall = [method |-> "validate_key", key_name |-> "GEMINI_API_KEY"]
    /\ environ["GEMINI_API_KEY"] = ""
    /\ keyResult.kind = "returned"

(***************************************************************************)
(* C24 as stated: whenever geocoding of the city yields coordinates (here: *)
(* the provider answers the city with one well-formed candidate), the      *)
(* weather tool returns the complete weather dictionary computed for those *)
(* coordinates, not an error dictionary, whatever the country argument.    *)
(***************************************************************************)
C24_ToolReturnsWeather ==
    (/\ tool \in Tools
     /\ toolResult # NoShape
     /\ ValidText(location)
     /\ provider.kind = "list"
     /\ Len(provider.body) = 1
     /\ Wellformed(provider.body[1]))
    => /\ toolResult = WeatherDict
       /\ latitude = provider.body[1].lat.val
       /\ longitude = provider.body[1].lon.val

(***************************************************************************)
(* C25 as stated: process_query never raises, and its result is a string   *)
(* for return type "text", a dictionary for "json" and a pair of a string  *)
(* and a dictionary for "both".                                            *)
(***************************************************************************)
C25_ShapeByReturnType ==
    apc = "done"
    => /\ queryResult.kind # "raised"
       /\ return_type = "text" => queryResult.kind = "str"
       /\ return_type = "json" => queryResult.kind = "dict"
       /\ return_type = "both"
             => /\ queryResult.kind = "pair"
                /\ queryResult.first.kind = "str"
                /\ queryResult.second.kind = "dict"

(***************************************************************************)
(* C26: when the country prompt was issued and a candidate has been        *)
(* selected, the last entry at the country prompt names a country, and the *)
(* selected candidate is a candidate of that very country: never one of    *)
(* another country, never one without a country.                           *)
(***************************************************************************)
\* The country of number n in the table: the one with n - 1 countries
\* appearing before it in the response.
CountryNumbered(n) ==
    CHOOSE c \in CountriesIn(results) :
        Cardinality({d \in CountriesIn(results) :
                        TopRankOf(results, d) < TopRankOf(results, c)}) = n - 1

C26_SelectedOfChosenCountry ==
    (countryPrompts = 1 /\ selected # 0)
    => /\ countryEntry.kind = "int"
       /\ countryEntry.val \in 1..Cardinality(CountriesIn(results))
       /\ results[selected].address \in Countries
       /\ results[selected].address = CountryNumbered(countryEntry.val)
       /\ result.kind = "coords" => result = CoordsOf(results[selected])

\* The second country of the table was chosen, and its candidate returned,
\* in a response that also holds a candidate without a country.
C26_Witness ==
    /\ GeocodeCall /\ pc = "done"
    /\ countryPrompts = 1
    /\ countryEntry = [kind |-> "int", val |-> 2]
    /\ \E i \in 1..Len(results) : results[i].address \notin Countries
    /\ selected # 0
    /\ results[selected].address = CountryNumbered(2)
    /\ result.kind = "coords"

(***************************************************************************)
(* C27: once the candidate-selection prompt is issued, the entry 0 leaves  *)
(* it waiting with nothing selected and nothing returned, and the prompt   *)
(* is only ever left with the candidate selected that the last entry       *)
(* numbers in the list shown: the call does not end as cancelled.          *)
(***************************************************************************)
C27_CandidatePromptNoCancel ==
    candPrompts = 1
    => /\ Len(locations) > 1
       /\ candEntry = CancelEntry
             => /\ pc = "candidate_prompt"
                /\ selected = 0
                /\ result = Pending
       /\ pc # "candidate_prompt"
             => /\ ResolutionOver
                /\ candEntry.kind = "int"
                /\ candEntry.val \in 1..Len(locations)
                /\ selected = locations[candEntry.val]
                /\ countryEntry # CancelEntry

\* The second country was chosen, and 0 entered at the prompt of its two
\* candidates, which is waiting for another entry.
C27_Witness ==
    /\ GeocodeCall
    /\ pc = "candidate_prompt"
    /\ countryEntry = [kind |-> "int", val |-> 2]
    /\ Len(locations) = 2
    /\ candEntry = CancelEntry

(***************************************************************************)
(* C28: a geocode call that has got past its arguments ends with a result, *)
(* given that a valid choice is entered at each prompt sooner or later;    *)
(* and the reading of an invalid entry changes neither the response, nor   *)
(* the grouping, nor the list of candidates shown, nor the prompts issued: *)
(* the call stays at the prompt it was at.                                 *)
(***************************************************************************)
InvalidEntryChangesNothing ==
    (\/ pc = "country_prompt" /\ InvalidCountryEntry'
     \/ pc = "candidate_prompt" /\ InvalidCandidateEntry')
    => /\ pc' = pc
       /\ UNCHANGED <<results, countries, locations, selected, coordinates,
                      result, countryPrompts, candPrompts, searchRequests>>

CallEndsWithResult ==
    (pc \in {"request", "country_prompt", "candidate_prompt"})
    ~> (pc = "done" /\ result.kind \in {"coords", "None", "raised"})

\* C28: invalid entries change nothing, and every call ends with a result.
C28_TerminatesOnValidChoices ==
    [][InvalidEntryChangesNothing]_vars /\ CallEndsWithResult

\* The call ended with coordinates after an entry at each of the two
\* prompts.
C28_Witness ==
    /\ GeocodeCall /\ pc = "done"
    /\ countryEntry.kind = "int"
    /\ candEntry.kind = "int"
    /\ result.kind = "coords"
    /\ selected = locations[candEntry.val]

\* Text that is no number was read at the candidate prompt, which waits.
C28_WitnessInvalid ==
    /\ GeocodeCall
    /\ pc = "candidate_prompt"
    /\ candEntry = [kind |-> "text", val |-> 0]
    /\ selected = 0

(***************************************************************************)
(* C29 as stated: get_location_details sends the reverse request only once *)
(* the resolution has produced coordinates, and with those coordinates;    *)
(* when the resolution fails it sends no reverse request and returns       *)
(* status.success = False; and a failed reverse request is returned as     *)
(* status.success = False, not raised.                                     *)
(***************************************************************************)
C29_ReverseAfterResolution ==
    (op = "get_location_details" /\ ValidText(location))
    => /\ reverseRequests <= 1
       /\ (pc = "reverse" \/ reverseRequests = 1)
             => /\ coordinates.set
                /\ selected # 0
                /\ coordinates.lat = results[selected].lat.val
                /\ coordinates.lon = results[selected].lon.val
       /\ (pc = "done" /\ reverseRequests = 1)
             => /\ result.kind = "details"
                /\ result.success
                      => /\ result.lat = coordinates.lat
                         /\ result.lon = coordinates.lon
       /\ (pc = "done" /\ ~coordinates.set)
             => /\ reverseRequests = 0
                /\ result.kind = "details"
                /\ ~result.success

====
